---- MODULE Spec2Model ----
(***************************************************************************)
(* Avatar locomotion of HabboAvatarSprite (walkTo / stop / update /        *)
(* calculateDirection), the tile clicks and frame updates of RoomScene and *)
(* the floorplan editor of FloorplanScene as state machines.  Coordinates  *)
(* are exact rationals, the clock read by Date.now() is the variable now.  *)
(***************************************************************************)
EXTENDS Integers, Sequences, FiniteSets, TLC

\* ---------------------------------------------------------------- bounds
\* the clock runs from 0 to MaxTicks * TickMs
MaxTicks == 2
\* longest path handed to walkTo
MaxLen == 2
\* the clock of the single-trip specification runs to TripTicks * TickMs
TripTicks == 7
\* the floorplan editor's room has the columns 0..FloorMaxX
FloorMaxX == 1
\* the tiles of the heading specification are (0..DirMax) x (0..DirMax)
DirMax == 2
\* walkTo calls in a behaviour of the arrival specification
LiveWalks == 2
\* there an update comes at most LiveLag * TickMs after its leg started
LiveLag == 3
\* the rooms handed to exportPattern have the columns 0..PatMaxX
PatMaxX == 1

\* ------------------------------------------------------ program constants
moveDuration == 500
frameUpdateInterval == 3

\* granularity of the clock: half a leg
TickMs == moveDuration \div 2
MaxTime == MaxTicks * TickMs
TripTime == TripTicks * TickMs

\* ------------------------------------------------------------- rationals
RECURSIVE Gcd(_, _)
Gcd(a, b) == IF b = 0 THEN a ELSE Gcd(b, a % b)

Abs(a) == IF a < 0 THEN -a ELSE a

\* the number n/d (d > 0) in lowest terms
Rat(n, d) == LET g == Gcd(Abs(n), d) IN [n |-> n \div g, d |-> d \div g]

Num(k) == [n |-> k, d |-> 1]
RAdd(a, b) == Rat(a.n * b.d + b.n * a.d, a.d * b.d)
RSub(a, b) == Rat(a.n * b.d - b.n * a.d, a.d * b.d)
RMul(a, b) == Rat(a.n * b.n, a.d * b.d)
RLt(a, b) == a.n * b.d < b.n * a.d
RLe(a, b) == a.n * b.d <= b.n * a.d
RMin(a, b) == IF RLt(b, a) THEN b ELSE a
IsInt(a) == a.d = 1

\* Math.floor
Floor(a) == Num(a.n \div a.d)

\* Math.round: the nearest integer, a tie going up
Round(a) == Num((2 * a.n + a.d) \div (2 * a.d))

\* --------------------------------------------------------------- Vector3
Vector3(x, y, z) == [x |-> x, y |-> y, z |-> z]
Tile(x, y, z) == Vector3(Num(x), Num(y), Num(z))

\* the tiles paths are made of, east and south of the tile the avatar is
\* constructed on; (0,1) is one step higher than the others
Waypoints == {Tile(1, 0, 0), Tile(0, 1, 1)}

Paths == UNION {[1..k -> Waypoints] : k \in 0..MaxLen}

\* the 3-waypoint paths of the single-trip specification
TripPaths == [1..3 -> Waypoints]

\* the tiles of the heading specification
DirTiles == {Tile(x, y, 0) : x \in 0..DirMax, y \in 0..DirMax}

\* where its avatars are constructed: on the tiles and half way between them
DirStarts == {Vector3(Rat(x, 2), Rat(y, 2), Num(0)) : x \in 0..(2 * DirMax), y \in 0..(2 * DirMax)}

Null == <<>>
Some(v) == <<v>>

VARIABLES
    position,            \* Vector3, continuous
    direction,           \* 0..7
    isWalking,
    currentPath,         \* pending waypoints
    currentTarget,       \* Null or Some(Vector3)
    moveStartTime,
    moveStartPos,
    frameCounter,
    frameUpdateCounter,
    now,                 \* the clock behind Date.now()
    call,                \* history: the last call and the state it was made in
    run,                 \* history: update calls made while Moving since the last walkTo, mod 12
    leg,                 \* history: interpolating update calls since the leg began, mod 12
    trip,                \* history: the walkTo of the single-trip specification
    container,           \* screen position of the avatar's sprite container
    roomData,            \* FloorplanScene: the room being edited
    config,              \* FloorplanScene: current action and height
    isHolding,           \* FloorplanScene: a pointer is held down
    lastUsedTile,        \* FloorplanScene: the tile the held pointer acted on last
    edit,                \* history: the last call made on the floorplan editor
    store,               \* RoomScene: the game store's avatar-moving flag and position
    click,               \* history: the last call made on the room scene
    pair,                \* two avatar instances; currentPath holds an array reference
    arrays,              \* the path arrays: the caller's and each instance's own
    acted                \* history: the last call made on one of the two instances

avatar == <<position, direction, isWalking, currentPath, currentTarget,
            moveStartTime, moveStartPos, frameCounter, frameUpdateCounter>>
editor == <<roomData, config, isHolding, lastUsedTile, edit>>

scene == <<store, click>>

twins == <<pair, arrays, acted>>

\* what no call on the avatar touches
offstage == <<editor, scene, twins>>

walker == <<avatar, now, call, run, leg, trip, container>>

\* what no call on the floorplan editor touches
outsideEditor == <<walker, scene, twins>>

\* what no call on the room scene touches
outsideRoom == <<editor, twins>>

\* what no call on the two instances touches
outsideTwins == <<avatar, call, run, leg, trip, container, editor, scene>>

vars == <<position, direction, isWalking, currentPath, currentTarget,
          moveStartTime, moveStartPos, frameCounter, frameUpdateCounter,
          now, call, run, leg, trip, container,
          roomData, config, isHolding, lastUsedTile, edit,
          store, click, pair, arrays, acted>>

\* ------------------------------------------------------------ operations
\* variant: the y axis taken upside down
calculateDirection_flipY(from, to, cur) ==
    LET dx == RSub(to.x, from.x)
        dy == RSub(to.y, from.y)
    IN  IF dx.n = 0 /\ dy.n > 0 THEN 0
        ELSE IF dx.n > 0 /\ dy.n > 0 THEN 1
        ELSE IF dx.n > 0 /\ dy.n = 0 THEN 2
        ELSE IF dx.n > 0 /\ dy.n < 0 THEN 3
        ELSE IF dx.n = 0 /\ dy.n < 0 THEN 4
        ELSE IF dx.n < 0 /\ dy.n < 0 THEN 5
        ELSE IF dx.n < 0 /\ dy.n = 0 THEN 6
        ELSE IF dx.n < 0 /\ dy.n > 0 THEN 7
        ELSE cur

calculateDirection(from, to, cur) ==
    LET dx == RSub(to.x, from.x)
        dy == RSub(to.y, from.y)
    IN  IF dx.n = 0 /\ dy.n < 0 THEN 0
        ELSE IF dx.n > 0 /\ dy.n < 0 THEN 1
        ELSE IF dx.n > 0 /\ dy.n = 0 THEN 2
        ELSE IF dx.n > 0 /\ dy.n > 0 THEN 3
        ELSE IF dx.n = 0 /\ dy.n > 0 THEN 4
        ELSE IF dx.n < 0 /\ dy.n > 0 THEN 5
        ELSE IF dx.n < 0 /\ dy.n = 0 THEN 6
        ELSE IF dx.n < 0 /\ dy.n < 0 THEN 7
        ELSE cur

\* variant: the snap truncates
snapIfWalking_floor(pos, walking) ==
    IF walking THEN Vector3(Floor(pos.x), Floor(pos.y), pos.z) ELSE pos

\* variant: the snap is applied in every state
snapIfWalking_always(pos, walking) ==
    Vector3(Round(pos.x), Round(pos.y), pos.z)

\* walkTo, lines 130-136: the position the new leg starts from
snapIfWalking(pos, walking) ==
    IF walking THEN Vector3(Round(pos.x), Round(pos.y), pos.z) ELSE pos

\* walkTo, line 138: the path is copied element by element
copyPath(path) == [i \in 1..Len(path) |-> Vector3(path[i].x, path[i].y, path[i].z)]

\* variant: a walkTo made while Moving is queued behind the current path
startWalk_queue(path) ==
    LET start == snapIfWalking(position, isWalking)
        copied == copyPath(path)
    IN  IF isWalking
        THEN /\ currentPath' = currentPath \o copied
             /\ UNCHANGED <<position, currentTarget, isWalking, frameCounter,
                            frameUpdateCounter, direction, moveStartTime, moveStartPos>>
        ELSE /\ position' = start
             /\ currentTarget' = Some(Head(copied))
             /\ currentPath' = Tail(copied)
             /\ isWalking' = TRUE
             /\ frameCounter' = 0
             /\ frameUpdateCounter' = 0
             /\ direction' = calculateDirection(start, Head(copied), direction)
             /\ moveStartTime' = now
             /\ moveStartPos' = start

\* walkTo, lines 130-151: a non-empty path
startWalk(path) ==
    LET start == snapIfWalking(position, isWalking)
        copied == copyPath(path)
    IN  /\ position' = start
        /\ currentTarget' = Some(Head(copied))
        /\ currentPath' = Tail(copied)
        /\ isWalking' = TRUE
        /\ frameCounter' = 0
        /\ frameUpdateCounter' = 0
        /\ direction' = calculateDirection(start, Head(copied), direction)
        /\ moveStartTime' = now
        /\ moveStartPos' = start

\* variant: an empty path is taken as a request to stop
walkTo_emptyStops(path) ==
    IF Len(path) = 0
    THEN /\ isWalking' = FALSE
         /\ currentPath' = <<>>
         /\ currentTarget' = Null
         /\ frameCounter' = 0
         /\ frameUpdateCounter' = 0
         /\ UNCHANGED <<position, direction, moveStartTime, moveStartPos>>
    ELSE startWalk(path)

walkTo(path) ==
    IF Len(path) = 0 THEN UNCHANGED avatar ELSE startWalk(path)

\* variant: stop leaves the leg target in place
stop_keepsTarget ==
    /\ isWalking' = FALSE
    /\ currentPath' = <<>>
    /\ frameCounter' = 0
    /\ frameUpdateCounter' = 0
    /\ UNCHANGED <<position, direction, currentTarget, moveStartTime, moveStartPos>>

\* variant: stop aligns the avatar with a tile
stop_snap ==
    /\ isWalking' = FALSE
    /\ currentPath' = <<>>
    /\ currentTarget' = Null
    /\ frameCounter' = 0
    /\ frameUpdateCounter' = 0
    /\ position' = Vector3(Round(position.x), Round(position.y), position.z)
    /\ UNCHANGED <<direction, moveStartTime, moveStartPos>>

stop ==
    /\ isWalking' = FALSE
    /\ currentPath' = <<>>
    /\ currentTarget' = Null
    /\ frameCounter' = 0
    /\ frameUpdateCounter' = 0
    /\ UNCHANGED <<position, direction, moveStartTime, moveStartPos>>

\* variant: a leg lasts half as long
progressAt_short(t, startTime) ==
    RMin(Rat(t - startTime, moveDuration \div 2), Num(1))

\* update, lines 167-168
progressAt(t, startTime) ==
    RMin(Rat(t - startTime, moveDuration), Num(1))

\* variant: the target is taken as an offset where the leg's delta belongs
lerp_noDelta(from, to, progress) == RAdd(from, RMul(to, progress))

\* update, lines 190-192: one component of the interpolated position
lerp(from, to, progress) == RAdd(from, RMul(RSub(to, from), progress))

\* variant: the next leg keeps the previous leg's start position
completeLeg_stale(target) ==
    /\ position' = Vector3(target.x, target.y, target.z)
    /\ IF Len(currentPath) > 0
       THEN /\ currentTarget' = Some(Head(currentPath))
            /\ currentPath' = Tail(currentPath)
            /\ direction' = calculateDirection(position', Head(currentPath), direction)
            /\ moveStartTime' = now
            /\ frameCounter' = 0
            /\ frameUpdateCounter' = 0
            /\ UNCHANGED <<isWalking, moveStartPos>>
       ELSE /\ isWalking' = FALSE
            /\ currentPath' = <<>>
            /\ currentTarget' = Null
            /\ frameCounter' = 0
            /\ frameUpdateCounter' = 0
            /\ UNCHANGED <<direction, moveStartTime, moveStartPos>>

\* variant: the next leg starts when the finished leg was due to end
completeLeg_carry(target) ==
    /\ position' = Vector3(target.x, target.y, target.z)
    /\ IF Len(currentPath) > 0
       THEN /\ currentTarget' = Some(Head(currentPath))
            /\ currentPath' = Tail(currentPath)
            /\ direction' = calculateDirection(position', Head(currentPath), direction)
            /\ moveStartTime' = moveStartTime + moveDuration
            /\ moveStartPos' = position'
            /\ frameCounter' = 0
            /\ frameUpdateCounter' = 0
            /\ UNCHANGED isWalking
       ELSE /\ isWalking' = FALSE
            /\ currentPath' = <<>>
            /\ currentTarget' = Null
            /\ frameCounter' = 0
            /\ frameUpdateCounter' = 0
            /\ UNCHANGED <<direction, moveStartTime, moveStartPos>>

\* variant: the next target is taken from the back of the pending waypoints
completeLeg_pop(target) ==
    /\ position' = Vector3(target.x, target.y, target.z)
    /\ IF Len(currentPath) > 0
       THEN /\ currentTarget' = Some(currentPath[Len(currentPath)])
            /\ currentPath' = SubSeq(currentPath, 1, Len(currentPath) - 1)
            /\ direction' = calculateDirection(position', currentPath[Len(currentPath)], direction)
            /\ moveStartTime' = now
            /\ moveStartPos' = position'
            /\ frameCounter' = 0
            /\ frameUpdateCounter' = 0
            /\ UNCHANGED isWalking
       ELSE /\ isWalking' = FALSE
            /\ currentPath' = <<>>
            /\ currentTarget' = Null
            /\ frameCounter' = 0
            /\ frameUpdateCounter' = 0
            /\ UNCHANGED <<direction, moveStartTime, moveStartPos>>

\* update, lines 171-188: the leg is over
completeLeg(target) ==
    /\ position' = Vector3(target.x, target.y, target.z)
    /\ IF Len(currentPath) > 0
       THEN /\ currentTarget' = Some(Head(currentPath))
            /\ currentPath' = Tail(currentPath)
            /\ direction' = calculateDirection(position', Head(currentPath), direction)
            /\ moveStartTime' = now
            /\ moveStartPos' = position'
            /\ frameCounter' = 0
            /\ frameUpdateCounter' = 0
            /\ UNCHANGED isWalking
       ELSE /\ isWalking' = FALSE
            /\ currentPath' = <<>>
            /\ currentTarget' = Null
            /\ frameCounter' = 0
            /\ frameUpdateCounter' = 0
            /\ UNCHANGED <<direction, moveStartTime, moveStartPos>>

\* variant: the frame advances on every second call
interpolate_fast(target, progress) ==
    /\ position' = Vector3(lerp(moveStartPos.x, target.x, progress),
                           lerp(moveStartPos.y, target.y, progress),
                           lerp(moveStartPos.z, target.z, progress))
    /\ IF frameUpdateCounter + 1 >= frameUpdateInterval - 1
       THEN /\ frameUpdateCounter' = 0
            /\ frameCounter' = (frameCounter + 1) % 4
       ELSE /\ frameUpdateCounter' = frameUpdateCounter + 1
            /\ UNCHANGED frameCounter
    /\ UNCHANGED <<direction, isWalking, currentPath, currentTarget,
                   moveStartTime, moveStartPos>>

\* variant: the cadence counter is compared with > where the code has >=
interpolate_late(target, progress) ==
    /\ position' = Vector3(lerp(moveStartPos.x, target.x, progress),
                           lerp(moveStartPos.y, target.y, progress),
                           lerp(moveStartPos.z, target.z, progress))
    /\ IF frameUpdateCounter + 1 > frameUpdateInterval
       THEN /\ frameUpdateCounter' = 0
            /\ frameCounter' = (frameCounter + 1) % 4
       ELSE /\ frameUpdateCounter' = frameUpdateCounter + 1
            /\ UNCHANGED frameCounter
    /\ UNCHANGED <<direction, isWalking, currentPath, currentTarget,
                   moveStartTime, moveStartPos>>

\* update, lines 190-199: the leg goes on
interpolate(target, progress) ==
    /\ position' = Vector3(lerp(moveStartPos.x, target.x, progress),
                           lerp(moveStartPos.y, target.y, progress),
                           lerp(moveStartPos.z, target.z, progress))
    /\ IF frameUpdateCounter + 1 >= frameUpdateInterval
       THEN /\ frameUpdateCounter' = 0
            /\ frameCounter' = (frameCounter + 1) % 4
       ELSE /\ frameUpdateCounter' = frameUpdateCounter + 1
            /\ UNCHANGED frameCounter
    /\ UNCHANGED <<direction, isWalking, currentPath, currentTarget,
                   moveStartTime, moveStartPos>>

\* variant: an Idle avatar restarts its leg timer on every call
update_idleTimer ==
    IF ~isWalking \/ currentTarget = Null
    THEN /\ moveStartTime' = now
         /\ UNCHANGED <<position, direction, isWalking, currentPath, currentTarget,
                        moveStartPos, frameCounter, frameUpdateCounter>>
    ELSE LET progress == progressAt(now, moveStartTime)
         IN  IF RLe(Num(1), progress)
             THEN completeLeg(Head(currentTarget))
             ELSE interpolate(Head(currentTarget), progress)

\* variant: a leg is over only when progress exceeds 1
update_strict ==
    IF ~isWalking \/ currentTarget = Null
    THEN UNCHANGED avatar
    ELSE LET progress == progressAt(now, moveStartTime)
         IN  IF RLt(Num(1), progress)
             THEN completeLeg(Head(currentTarget))
             ELSE interpolate(Head(currentTarget), progress)

update ==
    IF ~isWalking \/ currentTarget = Null
    THEN UNCHANGED avatar
    ELSE LET progress == progressAt(now, moveStartTime)
         IN  IF RLe(Num(1), progress)
             THEN completeLeg(Head(currentTarget))
             ELSE interpolate(Head(currentTarget), progress)

\* ------------------------------------------------------- two instances
\* The same methods on one of two instances. An instance's currentPath is a
\* reference into arrays: array 0 is the array the caller hands to walkTo,
\* array i is the array instance i allocated last.
GivenArray == 0

\* variant: walkTo keeps the caller's array
mappedArray_alias(given, own) == given

\* walkTo, line 138: path.map returns a new array
mappedArray(given, own) == own

walkToOn(s, i, given, t) ==
    LET a == s.pair[i]
        path == s.arrays[given]
    IN  IF Len(path) = 0 THEN s
        ELSE
        LET start == snapIfWalking(a.position, a.isWalking)
            mapped == mappedArray(given, i)
            copied == [s.arrays EXCEPT ![mapped] = copyPath(path)]
            target == Head(copied[mapped])
        IN  [pair |-> [s.pair EXCEPT ![i] =
                          [a EXCEPT !.position = start,
                                    !.currentPath = mapped,
                                    !.currentTarget = Some(target),
                                    !.isWalking = TRUE,
                                    !.frameCounter = 0,
                                    !.frameUpdateCounter = 0,
                                    !.direction = calculateDirection(start, target, a.direction),
                                    !.moveStartTime = t,
                                    !.moveStartPos = start]],
             arrays |-> [copied EXCEPT ![mapped] = Tail(@)]]

\* stop, line 156: currentPath becomes a new empty array
stopOn(s, i) ==
    [pair |-> [s.pair EXCEPT ![i] =
                  [@ EXCEPT !.isWalking = FALSE,
                            !.currentPath = i,
                            !.currentTarget = Null,
                            !.frameCounter = 0,
                            !.frameUpdateCounter = 0]],
     arrays |-> [s.arrays EXCEPT ![i] = <<>>]]

updateOn(s, i, t) ==
    LET a == s.pair[i]
        pending == s.arrays[a.currentPath]
    IN  IF ~a.isWalking \/ a.currentTarget = Null THEN s
        ELSE
        LET progress == progressAt(t, a.moveStartTime)
            target == Head(a.currentTarget)
            arrived == Vector3(target.x, target.y, target.z)
        IN  IF RLe(Num(1), progress)
            THEN IF Len(pending) > 0
                 THEN [pair |-> [s.pair EXCEPT ![i] =
                                    [a EXCEPT !.position = arrived,
                                              !.currentTarget = Some(Head(pending)),
                                              !.direction = calculateDirection(
                                                  arrived, Head(pending), a.direction),
                                              !.moveStartTime = t,
                                              !.moveStartPos = arrived,
                                              !.frameCounter = 0,
                                              !.frameUpdateCounter = 0]],
                       arrays |-> [s.arrays EXCEPT ![a.currentPath] = Tail(@)]]
                 ELSE stopOn([s EXCEPT !.pair[i].position = arrived], i)
            ELSE [s EXCEPT
                    !.pair[i].position =
                        Vector3(lerp(a.moveStartPos.x, target.x, progress),
                                lerp(a.moveStartPos.y, target.y, progress),
                                lerp(a.moveStartPos.z, target.z, progress)),
                    !.pair[i].frameUpdateCounter =
                        IF a.frameUpdateCounter + 1 >= frameUpdateInterval
                        THEN 0 ELSE a.frameUpdateCounter + 1,
                    !.pair[i].frameCounter =
                        IF a.frameUpdateCounter + 1 >= frameUpdateInterval
                        THEN (a.frameCounter + 1) % 4 ELSE a.frameCounter]

\* a new instance at start
newAvatar(start) ==
    [position |-> start, direction |-> 2, isWalking |-> FALSE, currentPath |-> GivenArray,
     currentTarget |-> Null, moveStartTime |-> 0, moveStartPos |-> Tile(0, 0, 0),
     frameCounter |-> 0, frameUpdateCounter |-> 0]

Instances == {1, 2}

\* the path in the array the caller hands to both instances
GivenPath == <<Tile(1, 0, 0), Tile(0, 1, 1)>>

\* ------------------------------------------------------ screen position
\* IsometricEngine.tileToScreen: a unit of tileX adds (+32, +16), a unit of
\* tileY adds (-32, +16), a unit of height lifts by 32
tileToScreen(tileX, tileY, height) ==
    [x |-> RMul(RSub(tileX, tileY), Num(32)),
     y |-> RSub(RMul(RAdd(tileX, tileY), Num(16)), RMul(height, Num(32)))]

\* variant: the fractional part is taken from the nearest tile
updateScreenPosition_round(pos, dir) ==
    LET baseTileCorner == tileToScreen(Floor(pos.x), Floor(pos.y), pos.z)
        fracX == RSub(pos.x, Round(pos.x))
        fracY == RSub(pos.y, Round(pos.y))
        screenPos == [x |-> RAdd(RAdd(baseTileCorner.x, Num(32)),
                                 RMul(RSub(fracX, fracY), Num(32))),
                      y |-> RAdd(baseTileCorner.y, RMul(RAdd(fracX, fracY), Num(16)))]
        MANUAL_OFFSET_X == IF dir \in {4, 5, 6} THEN 30 ELSE -35
    IN  [x |-> RAdd(screenPos.x, Num(MANUAL_OFFSET_X)), y |-> screenPos.y]

\* the position updateScreenPosition gives the container
updateScreenPosition(pos, dir) ==
    LET baseTileCorner == tileToScreen(Floor(pos.x), Floor(pos.y), pos.z)
        fracX == RSub(pos.x, Floor(pos.x))
        fracY == RSub(pos.y, Floor(pos.y))
        screenPos == [x |-> RAdd(RAdd(baseTileCorner.x, Num(32)),
                                 RMul(RSub(fracX, fracY), Num(32))),
                      y |-> RAdd(baseTileCorner.y, RMul(RAdd(fracX, fracY), Num(16)))]
        MANUAL_OFFSET_X == IF dir \in {4, 5, 6} THEN 30 ELSE -35
    IN  [x |-> RAdd(screenPos.x, Num(MANUAL_OFFSET_X)), y |-> screenPos.y]

\* ------------------------------------------------------ floorplan editor
\* the room is one row of FloorMaxX + 1 tiles
FloorCols == 0..FloorMaxX
FloorRows == {0}
FloorTiles == FloorCols \X FloorRows

FloorActions == {"SET", "UNSET", "UP", "DOWN", "DOOR"}

\* the heights the height selector is set to
ConfigHeights == {0, 9}

NoTile == <<-1, -1>>

emptyTile == [height |-> 0, isBlocked |-> FALSE, walkable |-> FALSE]

createEmptyRoom ==
    [maxX |-> FloorMaxX, maxY |-> 0, doorTile |-> Null,
     tiles |-> [t \in FloorTiles |-> emptyTile]]

\* a room to load from: maxX + 1 tiles of one kind, with or without a door
SourceRoom(maxX, height, walkable, doorTile) ==
    [maxX |-> maxX, maxY |-> 0, doorTile |-> doorTile,
     tiles |-> [t \in (0..maxX) \X FloorRows |->
                   [height |-> height, isBlocked |-> FALSE, walkable |-> walkable]]]

SourceRooms ==
    {SourceRoom(0, 1, TRUE, Some(<<0, 0>>)),
     SourceRoom(FloorMaxX, 2, TRUE, Null),
     SourceRoom(0, 0, FALSE, Null)}

loadFromRoomData(sourceRoom) ==
    roomData' =
        [roomData EXCEPT
            !.tiles = [t \in FloorTiles |->
                          IF t[2] <= sourceRoom.maxY /\ t[1] <= sourceRoom.maxX
                          THEN [height |-> sourceRoom.tiles[t].height,
                                isBlocked |-> sourceRoom.tiles[t].isBlocked,
                                walkable |-> sourceRoom.tiles[t].walkable]
                          ELSE emptyTile],
            !.doorTile = IF sourceRoom.doorTile # Null
                         THEN Some(Head(sourceRoom.doorTile))
                         ELSE @]

\* variant: UP stops one step late
onClick_upTo10(gridX, gridY) ==
    LET tile == roomData.tiles[<<gridX, gridY>>]
        action == config.currentAction
    IN  roomData' =
            IF action = "SET"
            THEN [roomData EXCEPT !.tiles[<<gridX, gridY>>] =
                     [@ EXCEPT !.walkable = TRUE, !.height = config.currentHeight]]
            ELSE IF action = "UNSET"
            THEN [roomData EXCEPT !.tiles[<<gridX, gridY>>] =
                     [@ EXCEPT !.walkable = FALSE, !.height = 0]]
            ELSE IF action = "UP" /\ tile.walkable /\ tile.height <= 9
            THEN [roomData EXCEPT !.tiles[<<gridX, gridY>>].height = @ + 1]
            ELSE IF action = "DOWN" /\ tile.walkable /\ tile.height > 0
            THEN [roomData EXCEPT !.tiles[<<gridX, gridY>>].height = @ - 1]
            ELSE IF action = "DOOR" /\ tile.walkable
            THEN [roomData EXCEPT !.doorTile = Some(<<gridX, gridY>>)]
            ELSE roomData

onClick(gridX, gridY) ==
    LET tile == roomData.tiles[<<gridX, gridY>>]
        action == config.currentAction
    IN  roomData' =
            IF action = "SET"
            THEN [roomData EXCEPT !.tiles[<<gridX, gridY>>] =
                     [@ EXCEPT !.walkable = TRUE, !.height = config.currentHeight]]
            ELSE IF action = "UNSET"
            THEN [roomData EXCEPT !.tiles[<<gridX, gridY>>] =
                     [@ EXCEPT !.walkable = FALSE, !.height = 0]]
            ELSE IF action = "UP" /\ tile.walkable /\ tile.height < 9
            THEN [roomData EXCEPT !.tiles[<<gridX, gridY>>].height = @ + 1]
            ELSE IF action = "DOWN" /\ tile.walkable /\ tile.height > 0
            THEN [roomData EXCEPT !.tiles[<<gridX, gridY>>].height = @ - 1]
            ELSE IF action = "DOOR" /\ tile.walkable
            THEN [roomData EXCEPT !.doorTile = Some(<<gridX, gridY>>)]
            ELSE roomData

Max(a, b) == IF a > b THEN a ELSE b
Min(a, b) == IF a < b THEN a ELSE b

\* processTileAction, lines 228-238: the tile under the pointer, clamped
gridOf(pointer) ==
    LET screenX == pointer.x - 450
        screenY == pointer.y - 150
        localX == Floor(RAdd(Rat(screenX, 64), Rat(screenY, 32))).n
        localY == Floor(RSub(Rat(screenY, 32), Rat(screenX, 64))).n
    IN  <<Max(0, Min(localX, roomData.maxX)), Max(0, Min(localY, roomData.maxY))>>

\* variant: the tile of the previous event is not compared
processTileAction_again(pointer) ==
    LET grid == gridOf(pointer)
    IN  /\ lastUsedTile' = grid
        /\ onClick(grid[1], grid[2])

processTileAction(pointer) ==
    LET grid == gridOf(pointer)
    IN  IF lastUsedTile = grid
        THEN UNCHANGED <<roomData, lastUsedTile>>
        ELSE /\ lastUsedTile' = grid
             /\ onClick(grid[1], grid[2])

handlePointerDown(pointer) ==
    /\ isHolding' = TRUE
    /\ processTileAction(pointer)
    /\ UNCHANGED config

handlePointerUp ==
    /\ isHolding' = FALSE
    /\ lastUsedTile' = NoTile
    /\ UNCHANGED <<roomData, config>>

handlePointerMove(pointer) ==
    IF ~isHolding
    THEN UNCHANGED <<roomData, config, isHolding, lastUsedTile>>
    ELSE /\ processTileAction(pointer)
         /\ UNCHANGED <<config, isHolding>>

updateConfig(partial) ==
    /\ config' = [f \in DOMAIN config |->
                     IF f \in DOMAIN partial THEN partial[f] ELSE config[f]]
    /\ UNCHANGED <<roomData, isHolding, lastUsedTile>>

\* the pointer over the middle of tile (x, y) of the drawn grid
PointerAt(x, y) == [x |-> 450 + 32 * (x - y), y |-> 150 + 16 * (x + y + 1)]

\* pointers over the tiles of the room and over places beside and below it
Pointers == {PointerAt(x, 0) : x \in -1..(FloorMaxX + 1)} \cup {PointerAt(0, 1)}

\* toString(36) of a natural number, digit by digit
Digits36 == <<"0", "1", "2", "3", "4", "5", "6", "7", "8", "9", "a", "b",
              "c", "d", "e", "f", "g", "h", "i", "j", "k", "l", "m", "n",
              "o", "p", "q", "r", "s", "t", "u", "v", "w", "x", "y", "z">>

RECURSIVE toString36(_)
toString36(n) ==
    IF n < 36 THEN <<Digits36[n + 1]>>
    ELSE toString36(n \div 36) \o <<Digits36[(n % 36) + 1]>>

\* the largest member of a set of naturals, from 0 as the loops of lines
\* 298-308 take it
maxOf(S) == CHOOSE m \in S \cup {0} : \A n \in S \cup {0} : n <= m

\* lines 310-321: one row, a string grown tile by tile, as its characters
RECURSIVE exportRow(_, _, _)
exportRow(y, x, maxX) ==
    IF x > maxX THEN <<>>
    ELSE LET tile == roomData.tiles[<<x, y>>]
         IN  (IF tile.walkable THEN toString36(tile.height) ELSE <<"x">>)
                 \o exportRow(y, x + 1, maxX)

\* variant: the extent is taken over all tiles
exportPattern_allTiles ==
    LET maxY == maxOf({t[2] : t \in DOMAIN roomData.tiles})
        maxX == maxOf({t[1] : t \in DOMAIN roomData.tiles})
    IN  [y \in 1..(maxY + 1) |-> exportRow(y - 1, 0, maxX)]

exportPattern ==
    LET walkable == {t \in DOMAIN roomData.tiles : roomData.tiles[t].walkable}
        maxY == maxOf({t[2] : t \in walkable})
        maxX == maxOf({t[1] : t \in walkable})
    IN  [y \in 1..(maxY + 1) |-> exportRow(y - 1, 0, maxX)]

\* the rooms exportPattern is applied to: two rows of PatMaxX + 1 tiles, each
\* tile never set or unset (height 0), set at height 0 or 9, or loaded as
\* not walkable with a height
ExportTiles == (0..PatMaxX) \X {0, 1}

ExportKinds ==
    {[height |-> h, isBlocked |-> FALSE, walkable |-> w] : h \in {0, 9}, w \in BOOLEAN}

ExportRooms ==
    {[maxX |-> PatMaxX, maxY |-> 1, doorTile |-> Null, tiles |-> tiles] :
        tiles \in [ExportTiles -> ExportKinds]}

FloorplanWith(room) ==
    /\ roomData = room
    /\ config = [currentAction |-> "SET", currentHeight |-> 0, doorDirection |-> 2]
    /\ isHolding = FALSE
    /\ lastUsedTile = NoTile
    /\ edit = [op |-> "new", clicked |-> FALSE, blocked |-> FALSE, source |-> Null,
               tile |-> NoTile, prev |-> NoTile, released |-> NoTile]

FloorplanConstructed == FloorplanWith(createEmptyRoom)

\* ------------------------------------------------------------ room scene
\* the room: one row of four tiles; tile 2 is not walkable and cuts tile 3
\* off from tiles 0 and 1; the door, where the avatar spawns, is tile 0
RoomWalkable == <<TRUE, TRUE, FALSE, TRUE>>
RoomHeights == <<0, 1, 0, 0>>
RoomTiles == {<<x, 0>> : x \in 0..(Len(RoomWalkable) - 1)}

\* RoomManager.isTileWalkable
isTileWalkable(x, y) == <<x, y>> \in RoomTiles /\ RoomWalkable[x + 1]

\* RoomManager.getTile(x, y)?.height || 0
getTileHeight(x, y) == IF <<x, y>> \in RoomTiles THEN RoomHeights[x + 1] ELSE 0

\* PathFinder.findPath in a room of one row: none for an unwalkable goal, the
\* empty path for the start tile, else the tiles after the start up to the
\* goal when all of them are walkable, else none
findPath(fromX, fromY, toX, toY) ==
    IF ~isTileWalkable(toX, toY) THEN Null
    ELSE IF <<fromX, fromY>> = <<toX, toY>> THEN Some(<<>>)
    ELSE LET step == IF toX > fromX THEN 1 ELSE -1
             n == (toX - fromX) * step
         IN  IF /\ fromY = toY
                /\ \A i \in 0..n : isTileWalkable(fromX + i * step, fromY)
             THEN Some([i \in 1..n |->
                          Tile(fromX + i * step, fromY,
                               getTileHeight(fromX + i * step, fromY))])
             ELSE Null

getTilePosition == [x |-> Floor(position.x).n, y |-> Floor(position.y).n]

\* handleTileClick, lines 169-174: what the click finds
tileClick(tile) ==
    LET walkable == isTileWalkable(tile.x, tile.y)
        avatarPos == getTilePosition
    IN  [walkable |-> walkable,
         invoked |-> walkable,
         from |-> avatarPos,
         path |-> IF walkable
                  THEN findPath(avatarPos.x, avatarPos.y, tile.x, tile.y)
                  ELSE Null]

\* variant: the store is written whether or not a path was found
handleTileClick_storeAlways(tile) ==
    LET found == tileClick(tile)
    IN  IF ~found.walkable
        THEN UNCHANGED <<avatar, store>>
        ELSE /\ IF found.path # Null
                THEN walkTo(Head(found.path))
                ELSE UNCHANGED avatar
             /\ store' = [isAvatarMoving |-> TRUE,
                          avatarPosition |->
                              Some([x |-> tile.x, y |-> tile.y,
                                    z |-> getTileHeight(tile.x, tile.y)])]

handleTileClick(tile) ==
    LET found == tileClick(tile)
    IN  IF ~found.walkable
        THEN UNCHANGED <<avatar, store>>
        ELSE IF found.path # Null
        THEN /\ walkTo(Head(found.path))
             /\ store' = [isAvatarMoving |-> TRUE,
                          avatarPosition |->
                              Some([x |-> tile.x, y |-> tile.y,
                                    z |-> getTileHeight(tile.x, tile.y)])]
        ELSE UNCHANGED <<avatar, store>>

\* RoomScene.update, lines 370-378
sceneUpdate ==
    /\ update
    /\ store' = IF isWalking' # store.isAvatarMoving
                THEN [store EXCEPT !.isAvatarMoving = isWalking']
                ELSE store

NoClick(op) ==
    [op |-> op, tile |-> [x |-> -1, y |-> -1], moving |-> FALSE, walkable |-> FALSE,
     invoked |-> FALSE, from |-> [x |-> -1, y |-> -1], path |-> Null]

RoomConstructed ==
    /\ store = [isAvatarMoving |-> FALSE, avatarPosition |-> Null]
    /\ click = NoClick("new")

\* ---------------------------------------------------------------- system
\* the state a call was made in, kept with the call
Called(op, path) ==
    [op |-> op, path |-> path, pos |-> position, walking |-> isWalking,
     pending |-> Len(currentPath),
     due |-> isWalking /\ now - moveStartTime >= moveDuration]

\* update and the clock keep no position
Passed(op) == [Called(op, <<>>) EXCEPT !.pos = Tile(0, 0, 0)]

\* all but the floorplan editor
StageConstructed(start) ==
    /\ position = start
    /\ direction = 2
    /\ isWalking = FALSE
    /\ currentPath = <<>>
    /\ currentTarget = Null
    /\ moveStartTime = 0
    /\ moveStartPos = Tile(0, 0, 0)
    /\ frameCounter = 0
    /\ frameUpdateCounter = 0
    /\ now = 0
    /\ call = [op |-> "new", path |-> <<>>, pos |-> start, walking |-> FALSE,
               pending |-> 0, due |-> FALSE]
    /\ run = 0
    /\ leg = 0
    /\ trip = Null
    /\ container = updateScreenPosition(start, 2)
    /\ RoomConstructed
    /\ pair = [i \in Instances |-> [newAvatar(start) EXCEPT !.currentPath = i]]
    /\ arrays = [r \in {GivenArray} \cup Instances |->
                    IF r = GivenArray THEN GivenPath ELSE <<>>]
    /\ acted = [op |-> "new", who |-> 0, updated |-> {}]

Constructed(start) == StageConstructed(start) /\ FloorplanConstructed

Init == Constructed(Tile(0, 0, 0))

WalkTo ==
    \E path \in Paths :
        /\ walkTo(path)
        /\ call' = Called("walkTo", path)
        /\ run' = IF Len(path) = 0 THEN run ELSE 0
        /\ leg' = IF Len(path) = 0 THEN leg ELSE 0
        /\ UNCHANGED <<now, trip, container, offstage>>

Stop ==
    /\ stop
    /\ call' = Called("stop", <<>>)
    /\ run' = 0
    /\ leg' = 0
    /\ UNCHANGED <<now, trip, container, offstage>>

Update ==
    /\ update
    /\ call' = Passed("update")
    /\ run' = IF isWalking THEN (run + 1) % 12 ELSE run
    /\ leg' = IF ~isWalking THEN leg
              ELSE IF now - moveStartTime >= moveDuration THEN 0
              ELSE (leg + 1) % 12
    /\ container' = IF isWalking /\ currentTarget # Null
                    THEN updateScreenPosition(position', direction')
                    ELSE container
    /\ UNCHANGED <<now, trip, offstage>>

TickTo(limit) ==
    \E d \in {TickMs, moveDuration} :
        /\ now + d <= limit
        /\ now' = now + d
        /\ call' = Passed("tick")
        /\ UNCHANGED <<avatar, run, leg, trip, container, offstage>>

Tick == TickTo(MaxTime)

Next == WalkTo \/ Stop \/ Update \/ Tick

Spec == Init /\ [][Next]_vars

\* ---- one walkTo with a 3-waypoint path from Idle, then only update calls
TripWalkTo ==
    \E path \in TripPaths :
        /\ trip = Null
        /\ walkTo(path)
        /\ call' = Called("walkTo", path)
        /\ trip' = Some([path |-> path, time |-> now, legs |-> 0])
        /\ run' = 0
        /\ leg' = 0
        /\ UNCHANGED <<now, container, offstage>>

TripUpdate ==
    /\ update
    /\ call' = Passed("update")
    /\ trip' = IF trip # Null /\ isWalking /\ now - moveStartTime >= moveDuration
               THEN Some([Head(trip) EXCEPT !.legs = @ + 1])
               ELSE trip
    /\ container' = IF isWalking /\ currentTarget # Null
                    THEN updateScreenPosition(position', direction')
                    ELSE container
    /\ UNCHANGED <<now, run, leg, offstage>>

TripTick == TickTo(TripTime)

TripNext == TripWalkTo \/ TripUpdate \/ TripTick

SpecTrip == Init /\ [][TripNext]_vars

\* ---- arrival: a few walkTo calls, and frames in which update is called and
\* ---- the clock then advances before the next call
LivePaths == Paths \ {<<>>}

LiveWalkTo ==
    \E path \in LivePaths :
        /\ IF trip = Null THEN TRUE ELSE Head(trip).walks < LiveWalks
        /\ walkTo(path)
        /\ trip' = Some([path |-> path, time |-> now,
                         walks |-> IF trip = Null THEN 1 ELSE Head(trip).walks + 1])
        /\ UNCHANGED <<now, call, run, leg, container, offstage>>

\* a frame of a walking avatar: update is called, at most LiveLag * TickMs
\* after its leg started, then time passes
LiveFrame ==
    \E d \in {TickMs, moveDuration} :
        /\ isWalking
        /\ now - moveStartTime <= LiveLag * TickMs
        /\ update
        /\ container' = IF isWalking /\ currentTarget # Null
                        THEN updateScreenPosition(position', direction')
                        ELSE container
        /\ now' = now + d
        /\ UNCHANGED <<call, run, leg, trip, offstage>>

LiveNext == LiveWalkTo \/ LiveFrame

\* the steps that advance the clock and keep the last walkTo are the frames
FramePassed ==
    \E d \in {TickMs, moveDuration} :
        /\ isWalking
        /\ now - moveStartTime <= LiveLag * TickMs
        /\ now' = now + d
        /\ UNCHANGED trip

\* update keeps being called with the clock advancing
SpecLive == Init /\ [][LiveNext]_vars /\ WF_now(FramePassed)

\* ---- headings: avatars constructed on any tile, sent to any tile
DirInit == \E start \in DirStarts : Constructed(start)

DirWalkTo ==
    \E to \in DirTiles :
        /\ walkTo(<<to>>)
        /\ call' = Called("walkTo", <<to>>)
        /\ UNCHANGED <<now, run, leg, trip, container, offstage>>

DirNext == DirWalkTo \/ Stop

SpecDir == DirInit /\ [][DirNext]_vars

\* ---- the room scene: tile clicks and frame updates
TileClick ==
    \E t \in RoomTiles :
        LET tile == [x |-> t[1], y |-> t[2]]
            found == tileClick(tile)
        IN  /\ handleTileClick(tile)
            /\ click' = [op |-> "click", tile |-> tile, moving |-> isWalking,
                         walkable |-> found.walkable, invoked |-> found.invoked,
                         from |-> found.from, path |-> found.path]
            /\ UNCHANGED <<now, call, run, leg, trip, container, outsideRoom>>

SceneUpdate ==
    /\ sceneUpdate
    /\ click' = NoClick("update")
    /\ container' = IF isWalking /\ currentTarget # Null
                    THEN updateScreenPosition(position', direction')
                    ELSE container
    /\ UNCHANGED <<now, call, run, leg, trip, outsideRoom>>

RoomNext == TileClick \/ SceneUpdate \/ Tick

SpecRoom == Init /\ [][RoomNext]_vars

\* ---- two instances, both handed the same array
PairState == [pair |-> pair, arrays |-> arrays]

PairBecomes(s) == pair' = s.pair /\ arrays' = s.arrays

\* each instance is updated at most once between two readings of the clock
PairWalkTo ==
    \E i \in Instances :
        /\ PairBecomes(walkToOn(PairState, i, GivenArray, now))
        /\ acted' = [acted EXCEPT !.op = "walkTo", !.who = i]
        /\ UNCHANGED <<now, outsideTwins>>

PairStop ==
    \E i \in Instances :
        /\ PairBecomes(stopOn(PairState, i))
        /\ acted' = [acted EXCEPT !.op = "stop", !.who = i]
        /\ UNCHANGED <<now, outsideTwins>>

PairUpdate ==
    \E i \in Instances \ acted.updated :
        /\ PairBecomes(updateOn(PairState, i, now))
        /\ acted' = [op |-> "update", who |-> i, updated |-> acted.updated \cup {i}]
        /\ UNCHANGED <<now, outsideTwins>>

PairTick ==
    \E d \in {TickMs, moveDuration} :
        /\ now + d <= MaxTime
        /\ now' = now + d
        /\ acted' = [op |-> "tick", who |-> 0, updated |-> {}]
        /\ UNCHANGED <<pair, arrays, outsideTwins>>

PairNext == PairWalkTo \/ PairStop \/ PairUpdate \/ PairTick

SpecPair == Init /\ [][PairNext]_vars

\* ------------------------------------------------- floorplan editor system
\* the last call on the editor: whether it ran onClick, and whether onClick
\* found UP at the top height or DOWN at the bottom height
Edited(op, clicked, source) ==
    LET tile == roomData.tiles[lastUsedTile']
    IN  [op |-> op,
         clicked |-> clicked,
         blocked |-> /\ clicked
                     /\ tile.walkable
                     /\ \/ config.currentAction = "UP" /\ tile.height = 9
                        \/ config.currentAction = "DOWN" /\ tile.height = 0,
         source |-> source]

PointerDown ==
    \E pointer \in Pointers :
        /\ handlePointerDown(pointer)
        /\ edit' = Edited("pointer", lastUsedTile' # lastUsedTile, Null)
        /\ UNCHANGED outsideEditor

PointerMove ==
    \E pointer \in Pointers :
        /\ handlePointerMove(pointer)
        /\ edit' = Edited("pointer", lastUsedTile' # lastUsedTile, Null)
        /\ UNCHANGED outsideEditor

PointerUp ==
    /\ handlePointerUp
    /\ edit' = Edited("up", FALSE, Null)
    /\ UNCHANGED outsideEditor

SetAction(actions) ==
    \E a \in actions :
        /\ updateConfig([currentAction |-> a])
        /\ edit' = Edited("config", FALSE, Null)
        /\ UNCHANGED outsideEditor

SetHeight ==
    \E h \in ConfigHeights :
        /\ updateConfig([currentHeight |-> h])
        /\ edit' = Edited("config", FALSE, Null)
        /\ UNCHANGED outsideEditor

Load ==
    \E sourceRoom \in SourceRooms :
        /\ loadFromRoomData(sourceRoom)
        /\ edit' = Edited("load", FALSE, Some(sourceRoom))
        /\ UNCHANGED <<config, isHolding, lastUsedTile>>
        /\ UNCHANGED outsideEditor

\* editing with SET, UNSET, UP and DOWN from the empty room
HeightsNext ==
    PointerDown \/ PointerMove \/ PointerUp
        \/ SetAction({"SET", "UNSET", "UP", "DOWN"}) \/ SetHeight

SpecHeights == Init /\ [][HeightsNext]_vars

\* editing with every action from the empty room
DoorNext ==
    PointerDown \/ PointerMove \/ PointerUp \/ SetAction(FloorActions) \/ SetHeight

SpecDoor == Init /\ [][DoorNext]_vars

\* editing and loading
FloorNext ==
    PointerDown \/ PointerMove \/ PointerUp \/ SetAction(FloorActions) \/ SetHeight
        \/ Load

SpecFloor == Init /\ [][FloorNext]_vars

\* ---- dragging with SET and UP from the empty room. The last pointer event:
\* the tile it resolved to, the tile of the event before it in the same hold
\* (NoTile for the first event of a hold and without a hold), and, for the
\* events after a pointerup, the tile of the last event before that pointerup
\* the pointer over each tile of the room and over the place beside the last
DragPointers == {PointerAt(x, 0) : x \in 0..(FloorMaxX + 1)}

Dragged(op, pointer) ==
    [op |-> op,
     tile |-> gridOf(pointer),
     prev |-> IF isHolding THEN edit.tile ELSE NoTile,
     released |-> IF isHolding THEN NoTile ELSE edit.released]

DragDown ==
    \E pointer \in DragPointers :
        /\ handlePointerDown(pointer)
        /\ edit' = Dragged("down", pointer)
        /\ UNCHANGED outsideEditor

DragMove ==
    \E pointer \in DragPointers :
        /\ handlePointerMove(pointer)
        /\ edit' = Dragged("move", pointer)
        /\ UNCHANGED outsideEditor

DragUp ==
    /\ handlePointerUp
    /\ edit' = [op |-> "up", tile |-> NoTile, prev |-> NoTile,
                released |-> IF isHolding THEN edit.tile ELSE edit.released]
    /\ UNCHANGED outsideEditor

DragSetAction ==
    \E a \in {"SET", "UP"} :
        /\ updateConfig([currentAction |-> a])
        /\ edit' = [edit EXCEPT !.op = "config"]
        /\ UNCHANGED outsideEditor

DragNext == DragDown \/ DragMove \/ DragUp \/ DragSetAction

SpecDrag == Init /\ [][DragNext]_vars

\* ---- exportPattern on every room of ExportRooms
ExportInit ==
    \E room \in ExportRooms : StageConstructed(Tile(0, 0, 0)) /\ FloorplanWith(room)

ExportPattern ==
    /\ edit' = [op |-> "export", pattern |-> exportPattern]
    /\ UNCHANGED <<roomData, config, isHolding, lastUsedTile>>
    /\ UNCHANGED outsideEditor

SpecExport == ExportInit /\ [][ExportPattern]_vars

\* ---------------------------------------------------------------- claims
Half == Rat(1, 2)

Sign(r) == IF r.n < 0 THEN -1 ELSE IF r.n > 0 THEN 1 ELSE 0

\* the heading convention 0=N .. 7=NW by the signs of the delta, rows dy < 0,
\* dy = 0, dy > 0 and columns dx < 0, dx = 0, dx > 0; 8 keeps the heading
Compass == <<  <<7, 0, 1>>,
               <<6, 8, 2>>,
               <<5, 4, 3>>  >>

Heading(from, to, cur) ==
    LET h == Compass[Sign(RSub(to.y, from.y)) + 2][Sign(RSub(to.x, from.x)) + 2]
    IN  IF h = 8 THEN cur ELSE h

\* r is an integer nearest to a
Nearest(a, r) == IsInt(r) /\ RLe(RSub(r, a), Half) /\ RLe(RSub(a, r), Half)

TheTrip == Head(trip)
Goal == TheTrip.path[Len(TheTrip.path)]

\* C1 as stated: after walkTo with a 3-waypoint path from Idle and no later
\* walkTo or stop, an update call made more than 3 x moveDuration after the
\* walkTo leaves the avatar Idle at the final waypoint.
C1_IdleAfterThreeDurations ==
    (trip # Null /\ call.op = "update" /\ now > TheTrip.time + 3 * moveDuration)
        => (~isWalking /\ position = Goal)

\* C1 amended: after walkTo with a 3-waypoint path from Idle and no later
\* walkTo or stop, the avatar is Idle exactly when three update calls have each
\* found at least moveDuration elapsed since the start of the leg then current;
\* it is then at the final waypoint's exact coordinates, and at least
\* 3 x moveDuration have passed since the walkTo.
C1_IdleAfterThreeLegs ==
    trip # Null =>
        /\ ~isWalking <=> TheTrip.legs = Len(TheTrip.path)
        /\ ~isWalking => /\ position = Goal
                         /\ now >= TheTrip.time + 3 * moveDuration

C1_Arrived ==
    /\ trip # Null
    /\ call.op = "update"
    /\ now > TheTrip.time + 3 * moveDuration
    /\ ~isWalking
    /\ position = Goal

\* C2: walkTo with a non-empty path while Moving replaces x and y by their
\* nearest integers and keeps z; the new leg starts at the snapped position and
\* the heading is taken from the snapped position to the first waypoint.
C2_SnapOnRedirect ==
    [][(call'.op = "walkTo" /\ Len(call'.path) > 0 /\ isWalking) =>
          /\ Nearest(position.x, position'.x)
          /\ Nearest(position.y, position'.y)
          /\ position'.z = position.z
          /\ moveStartPos' = position'
          /\ direction' = Heading(position', call'.path[1], direction)]_vars

C2_Snapped ==
    /\ call.op = "walkTo"
    /\ Len(call.path) > 0
    /\ call.walking
    /\ call.pos = Vector3(Rat(1, 4), Rat(1, 2), Rat(1, 2))
    /\ position = Vector3(Num(0), Num(1), Rat(1, 2))
    /\ moveStartPos = position

\* C3: walkTo with a non-empty path while Idle leaves the position as it is,
\* fractional or not, and the new leg starts at that position.
C3_NoSnapFromIdle ==
    [][(call'.op = "walkTo" /\ Len(call'.path) > 0 /\ ~isWalking) =>
          /\ position' = position
          /\ moveStartPos' = position]_vars

C3_FractionalStart ==
    /\ call.op = "walkTo"
    /\ Len(call.path) > 0
    /\ ~call.walking
    /\ ~IsInt(position.x)
    /\ moveStartPos = position

\* C4: right after walkTo(p) with non-empty p the avatar is Moving towards
\* p[1] and the pending waypoints are exactly the rest of p, whatever the
\* avatar was doing before.
C4_NewestWalkToWins ==
    (call.op = "walkTo" /\ Len(call.path) > 0) =>
        /\ isWalking
        /\ currentTarget = Some(call.path[1])
        /\ currentPath = Tail(call.path)

C4_Redirected ==
    /\ call.op = "walkTo"
    /\ Len(call.path) = 1
    /\ call.walking
    /\ call.pending > 0
    /\ currentPath = <<>>

\* C5: an update made while Moving with at least moveDuration elapsed puts the
\* avatar on the leg target; with waypoints pending the first becomes the
\* target, the heading is taken from the reached tile to it and the leg starts
\* at this time from the reached tile; with none pending the avatar is Idle.
C5_LegCompletion ==
    [][(call'.op = "update" /\ isWalking /\ currentTarget # Null
            /\ now - moveStartTime >= moveDuration) =>
          /\ position' = Head(currentTarget)
          /\ IF Len(currentPath) > 0
             THEN /\ isWalking'
                  /\ currentTarget' = Some(Head(currentPath))
                  /\ currentPath' = Tail(currentPath)
                  /\ direction' = Heading(Head(currentTarget), Head(currentPath), direction)
                  /\ moveStartTime' = now
                  /\ moveStartPos' = Head(currentTarget)
             ELSE ~isWalking']_vars

C5_NextLegStarted ==
    /\ call.op = "update"
    /\ call.due
    /\ call.pending > 0
    /\ isWalking
    /\ moveStartTime = now
    /\ position = moveStartPos

\* C6 as stated: while Moving the frame index is the number of update calls
\* made since the walkTo, divided by 3, modulo 4, leg boundaries included.
C6_CadenceAcrossLegs ==
    isWalking => frameCounter = (run \div frameUpdateInterval) % 4

\* C6 amended: within one leg the frame index advances once per 3 update calls
\* that find the leg unfinished, cycling 0,1,2,3,0; an update call that
\* completes a leg is not counted and puts the frame index and the cadence
\* counter back to 0; update calls made while Idle never move the frame index.
C6_CadenceWithinLeg ==
    /\ frameCounter = (leg \div frameUpdateInterval) % 4
    /\ frameUpdateCounter = leg % frameUpdateInterval

C6_CycleClosed ==
    /\ call.op = "update"
    /\ call.walking
    /\ ~call.due
    /\ leg = 0
    /\ frameCounter = 0
    /\ isWalking

\* C7: stop leaves the avatar Idle without target or pending waypoints, the
\* cadence counter at 0, and the position and the heading as they were.
C7_StopKeepsPosition ==
    [][call'.op = "stop" =>
          /\ ~isWalking'
          /\ currentTarget' = Null
          /\ currentPath' = <<>>
          /\ frameUpdateCounter' = 0
          /\ position' = position
          /\ direction' = direction]_vars

C7_StoppedMidLeg ==
    /\ call.op = "stop"
    /\ call.walking
    /\ call.pending > 0
    /\ ~IsInt(position.x)
    /\ position = call.pos
    /\ ~isWalking

\* C8: update while Idle changes nothing of the avatar, at any time.
C8_UpdateIdleNoOp ==
    [][(call'.op = "update" /\ ~isWalking) => UNCHANGED avatar]_vars

C8_UpdatedIdle ==
    /\ call.op = "update"
    /\ ~call.walking
    /\ ~IsInt(position.x)
    /\ now > moveStartTime

\* C9: walkTo with an empty path changes nothing of the avatar, Idle or Moving.
C9_EmptyPathIgnored ==
    [][(call'.op = "walkTo" /\ Len(call'.path) = 0) => UNCHANGED avatar]_vars

C9_IgnoredWhileMoving ==
    /\ call.op = "walkTo"
    /\ Len(call.path) = 0
    /\ call.walking
    /\ isWalking
    /\ Len(currentPath) > 0
    /\ ~IsInt(position.x)

\* C10: the heading set by walkTo follows the signs of the delta from the
\* position to the first waypoint: 0=N (dx=0,dy<0), 1=NE (dx>0,dy<0), 2=E
\* (dx>0,dy=0), 3=SE (dx>0,dy>0), 4=S (dx=0,dy>0), 5=SW (dx<0,dy>0), 6=W
\* (dx<0,dy=0), 7=NW (dx<0,dy<0); a delta of (0,0) keeps the heading.
C10_DirectionMapping ==
    [][(call'.op = "walkTo" /\ Len(call'.path) > 0) =>
          LET dx == Sign(RSub(call'.path[1].x, position'.x))
              dy == Sign(RSub(call'.path[1].y, position'.y))
          IN  /\ (dx = 0 /\ dy < 0) => direction' = 0
              /\ (dx > 0 /\ dy < 0) => direction' = 1
              /\ (dx > 0 /\ dy = 0) => direction' = 2
              /\ (dx > 0 /\ dy > 0) => direction' = 3
              /\ (dx = 0 /\ dy > 0) => direction' = 4
              /\ (dx < 0 /\ dy > 0) => direction' = 5
              /\ (dx < 0 /\ dy = 0) => direction' = 6
              /\ (dx < 0 /\ dy < 0) => direction' = 7
              /\ (dx = 0 /\ dy = 0) => direction' = direction]_vars

C10_HeadingKept ==
    /\ call.op = "walkTo"
    /\ Len(call.path) > 0
    /\ call.path[1].x = position.x
    /\ call.path[1].y = position.y
    /\ direction = 6

\* p lies between a and b
Between(a, p, b) == (RLe(a, p) /\ RLe(p, b)) \/ (RLe(b, p) /\ RLe(p, a))

\* p is the point reached after e of moveDuration on the way from a to b
OnTheWay(a, p, b, e) ==
    /\ RMul(RSub(p, a), Num(moveDuration)) = RMul(RSub(b, a), Num(e))
    /\ Between(a, p, b)

\* C11: an update made while Moving with 0 <= e < moveDuration elapsed since
\* the leg start puts each of x, y, z at legStart + (legTarget - legStart) *
\* e / moveDuration, between the leg start and the leg target, and leaves the
\* leg target and the pending waypoints as they were.
C11_Interpolation ==
    [][(call'.op = "update" /\ isWalking /\ currentTarget # Null
            /\ now - moveStartTime >= 0 /\ now - moveStartTime < moveDuration) =>
          /\ OnTheWay(moveStartPos.x, position'.x, Head(currentTarget).x, now - moveStartTime)
          /\ OnTheWay(moveStartPos.y, position'.y, Head(currentTarget).y, now - moveStartTime)
          /\ OnTheWay(moveStartPos.z, position'.z, Head(currentTarget).z, now - moveStartTime)
          /\ currentTarget' = currentTarget
          /\ currentPath' = currentPath]_vars

C11_MidLeg ==
    /\ call.op = "update"
    /\ call.walking
    /\ ~call.due
    /\ isWalking
    /\ ~IsInt(moveStartPos.x)
    /\ position.x # moveStartPos.x
    /\ position.z # moveStartPos.z
    /\ now - moveStartTime = TickMs

\* C12: after walkTo(p) with no later walkTo or stop the leg target is p[k+1]
\* once k legs are completed and the pending waypoints are the rest of p after
\* it, so the targets are taken from p in order, none skipped or repeated; the
\* avatar is Idle once all of p is used up.
C12_WaypointsInOrder ==
    trip # Null =>
        IF TheTrip.legs < Len(TheTrip.path)
        THEN /\ isWalking
             /\ currentTarget = Some(TheTrip.path[TheTrip.legs + 1])
             /\ currentPath = SubSeq(TheTrip.path, TheTrip.legs + 2, Len(TheTrip.path))
        ELSE /\ ~isWalking
             /\ currentTarget = Null
             /\ currentPath = <<>>

C12_SecondLegOfThree ==
    /\ trip # Null
    /\ TheTrip.legs = 1
    /\ TheTrip.path[2] # TheTrip.path[3]
    /\ call.op = "update"
    /\ call.due
    /\ currentTarget = Some(TheTrip.path[2])
    /\ currentPath = <<TheTrip.path[3]>>

\* C19: isWalking holds exactly when there is a leg target, and an Idle avatar
\* has no pending waypoints.
C19_FlagsConsistent ==
    /\ isWalking <=> currentTarget # Null
    /\ ~isWalking => currentPath = <<>>

C19_StoppedWithPending ==
    /\ call.op = "stop"
    /\ call.walking
    /\ call.pending > 0
    /\ ~isWalking
    /\ currentTarget = Null
    /\ currentPath = <<>>

\* the steps a tile coordinate is moved by
Deltas == {Rat(-1, 2), Rat(1, 4), Rat(1, 2), Rat(3, 4), Num(1)}

MovedX(pos, d) == [pos EXCEPT !.x = RAdd(@, d)]
MovedY(pos, d) == [pos EXCEPT !.y = RAdd(@, d)]

ScreenDelta(to, from) == [x |-> RSub(to.x, from.x), y |-> RSub(to.y, from.y)]

\* C18: at the avatar's heading and height, the screen position that
\* updateScreenPosition computes changes by exactly (32, 16) * d when x
\* changes by d and by (-32, 16) * d when y changes by d, whether or not the
\* change crosses a tile boundary; after an update of a walking avatar the
\* container is at the screen position of the avatar's position.
C18_ProjectionContinuity ==
    /\ \A d \in Deltas :
          /\ ScreenDelta(updateScreenPosition(MovedX(position, d), direction),
                         updateScreenPosition(position, direction))
                = [x |-> RMul(Num(32), d), y |-> RMul(Num(16), d)]
          /\ ScreenDelta(updateScreenPosition(MovedY(position, d), direction),
                         updateScreenPosition(position, direction))
                = [x |-> RMul(Num(-32), d), y |-> RMul(Num(16), d)]
    /\ (call.op = "update" /\ call.walking)
          => container = updateScreenPosition(position, direction)

\* an update left the avatar half a tile from the next tile boundary, so that
\* a step of 1/2 crosses it
C18_HalfwayToBoundary ==
    /\ call.op = "update"
    /\ call.walking
    /\ position.x = Half
    /\ Floor(RAdd(position.x, Half)) # Floor(position.x)
    /\ container = updateScreenPosition(position, direction)

\* C14: after any sequence of SET, UNSET, UP, DOWN and DOOR actions from the
\* empty room, the room's doorTile, if present, is a walkable tile.
C14_DoorOnWalkableTile ==
    roomData.doorTile # Null => roomData.tiles[Head(roomData.doorTile)].walkable

\* C15: with currentHeight in 0..9, after every step of SET, UNSET, UP and
\* DOWN editing every tile's height is in 0..9, and a click with UP on a tile
\* at height 9 or with DOWN on a walkable tile at height 0 leaves the room as
\* it was.
C15_HeightRange ==
    [][/\ \A t \in FloorTiles : roomData'.tiles[t].height \in 0..9
       /\ (/\ edit'.clicked
           /\ roomData.tiles[lastUsedTile'].walkable
           /\ \/ config.currentAction = "UP"
                    /\ roomData.tiles[lastUsedTile'].height = 9
              \/ config.currentAction = "DOWN"
                    /\ roomData.tiles[lastUsedTile'].height = 0)
             => roomData' = roomData]_vars

\* a click with UP reached onClick on a tile at height 9
C15_UpAtTop ==
    /\ edit.clicked
    /\ edit.blocked
    /\ config.currentAction = "UP"
    /\ roomData.tiles[lastUsedTile].walkable
    /\ roomData.tiles[lastUsedTile].height = 9

\* C16: after loadFromRoomData(source) every tile in the source's range has
\* the source's height and walkable flag, every other tile is unwalkable at
\* height 0, and the editor's doorTile is the source's doorTile.
C16_LoadReplacesAll ==
    edit.op = "load" =>
        LET sourceRoom == Head(edit.source)
        IN  /\ \A t \in FloorTiles :
                  IF t[1] <= sourceRoom.maxX /\ t[2] <= sourceRoom.maxY
                  THEN /\ roomData.tiles[t].height = sourceRoom.tiles[t].height
                       /\ roomData.tiles[t].walkable = sourceRoom.tiles[t].walkable
                  ELSE /\ roomData.tiles[t].height = 0
                       /\ ~roomData.tiles[t].walkable
            /\ roomData.doorTile = sourceRoom.doorTile

\* C17: a click on a tile that is not walkable, or for which findPath returns
\* none, leaves the avatar's locomotion state and the store as they were (so
\* walkTo was not called), and findPath is not invoked for an unwalkable tile.
C17_PreFiltered ==
    [][(click'.op = "click" /\ (~click'.walkable \/ click'.path = Null))
          => /\ UNCHANGED <<avatar, store>>
             /\ (~click'.walkable => ~click'.invoked)]_vars

\* a walking avatar was sent to the walkable tile beyond the gap, which no
\* path reaches
C17_UnreachableGoal ==
    /\ click.op = "click"
    /\ click.walkable
    /\ click.invoked
    /\ click.path = Null
    /\ click.moving
    /\ isWalking
    /\ store.isAvatarMoving

\* C20: when a click redirects a walking avatar along a new path, the tile
\* walkTo snapped the avatar to, where the first leg starts, is the start tile
\* that was passed to findPath.
C20_RedirectStartTile ==
    (click.op = "click" /\ click.moving /\ click.path # Null
        /\ Len(Head(click.path)) > 0)
      => /\ position.x = Num(click.from.x)
         /\ position.y = Num(click.from.y)
         /\ moveStartPos = position

\* the locomotion state of instance i: its fields, with the pending waypoints
\* its currentPath refers to
Locomotion(s, i) == [s.pair[i] EXCEPT !.currentPath = s.arrays[s.pair[i].currentPath]]

BothLocomotions(s) == [i \in Instances |-> Locomotion(s, i)]

\* C13: a walkTo, update or stop on one of two instances leaves the other's
\* position, heading, target, pending waypoints, leg start and frame counters
\* unchanged, also when both were handed the same array; and from every state
\* reached, updating the two at the same timestamp gives the same two states in
\* either order.
C13_Independence ==
    [][/\ acted'.op \in {"walkTo", "update", "stop"}
          => Locomotion(PairState', 3 - acted'.who)
                = Locomotion(PairState, 3 - acted'.who)
       /\ BothLocomotions(updateOn(updateOn(PairState', 1, now'), 2, now'))
             = BothLocomotions(updateOn(updateOn(PairState', 2, now'), 1, now'))]_vars

\* both instances were handed the same array and walk; an update has taken
\* instance 1 to its last waypoint while instance 2 still has one pending
C13_SharedArrayBothWalking ==
    /\ acted.op = "update"
    /\ acted.who = 1
    /\ pair[1].isWalking
    /\ pair[2].isWalking
    /\ arrays[pair[1].currentPath] = <<>>
    /\ Len(arrays[pair[2].currentPath]) = 1
    /\ pair[1].currentTarget = Some(arrays[GivenArray][2])
    /\ pair[2].currentTarget = Some(arrays[GivenArray][1])

\* C21: an update call completes at most one leg however late it comes: the
\* pending waypoints lose at most one, the avatar is put on the target of the
\* finished leg and not beyond, and the next leg starts at the time of the
\* call, so that time elapsed beyond moveDuration is not counted for it.
C21_OneLegPerUpdate ==
    [][call'.op = "update" =>
          /\ Len(currentPath') >= Len(currentPath) - 1
          /\ (isWalking /\ currentTarget # Null /\ now - moveStartTime >= moveDuration)
                => /\ position' = Head(currentTarget)
                   /\ Len(currentPath) > 0
                         => /\ currentTarget' = Some(Head(currentPath))
                            /\ currentPath' = Tail(currentPath)
                            /\ moveStartTime' = now
                            /\ now' - moveStartTime' = 0]_vars

\* the first update came two leg durations or more after the walkTo and
\* completed the first leg only
C21_LateUpdate ==
    /\ trip # Null
    /\ call.op = "update"
    /\ call.due
    /\ now - TheTrip.time >= 2 * moveDuration
    /\ TheTrip.legs = 1
    /\ isWalking
    /\ currentTarget = Some(TheTrip.path[2])
    /\ Len(currentPath) = 1
    /\ moveStartTime = now

\* C22: when the avatar is Moving and update keeps being called as the clock
\* advances, then, unless another walkTo comes, the avatar eventually is Idle
\* exactly on the last waypoint of the path of the most recent walkTo.
C22_EventualArrival ==
    (isWalking /\ trip # Null)
        ~> /\ trip # Null
           /\ ~isWalking
           /\ currentTarget = Null
           /\ currentPath = <<>>
           /\ position = Goal

\* a redirected avatar has arrived on the last waypoint of the second path
C22_ArrivedAfterRedirect ==
    /\ trip # Null
    /\ TheTrip.walks = 2
    /\ Len(TheTrip.path) = 2
    /\ TheTrip.time > 0
    /\ ~isWalking
    /\ position = TheTrip.path[2]
    /\ now >= TheTrip.time + 2 * moveDuration

\* C23: after every handleTileClick and after every RoomScene.update the
\* store's isAvatarMoving flag equals the avatar's isMoving(), also after a
\* click whose path is empty.
C23_StoreInSync ==
    click.op \in {"click", "update"} => store.isAvatarMoving = isWalking

\* C24: in every state reached by walkTo, update and stop in any order the
\* heading is in 0..7, the walk-cycle frame index is in 0..3 and the cadence
\* counter is in 0..2; an Idle avatar has both the frame index and the
\* cadence counter at 0.
C24_Ranges ==
    /\ direction \in 0..7
    /\ frameCounter \in 0..3
    /\ frameUpdateCounter \in 0..(frameUpdateInterval - 1)
    /\ ~isWalking => frameCounter = 0 /\ frameUpdateCounter = 0

\* the last frame of the cycle on the last call of its cadence
C24_LastFrame ==
    /\ isWalking
    /\ call.op = "update"
    /\ frameCounter = 3
    /\ frameUpdateCounter = frameUpdateInterval - 1

\* what applying the current action (SET or UP) to tile t does to the room
AppliedTo(t) ==
    LET tile == roomData.tiles[t]
    IN  IF config.currentAction = "SET"
        THEN roomData' = [roomData EXCEPT !.tiles[t] =
                             [@ EXCEPT !.walkable = TRUE, !.height = config.currentHeight]]
        ELSE IF tile.walkable /\ tile.height < 9
        THEN roomData' = [roomData EXCEPT !.tiles[t].height = @ + 1]
        ELSE roomData' = roomData

\* C25: during a hold a pointer event that resolves to the same clamped tile
\* as the event before it leaves the room as it is, so the action is applied
\* to the tile once; a pointermove without a hold changes no tile; the first
\* pointerdown after a pointerup applies the action, also on the tile of the
\* events before the pointerup.
C25_DragDeDuplication ==
    [][edit'.op \in {"down", "move"} =>
          /\ (isHolding /\ edit'.tile = edit'.prev) => roomData' = roomData
          /\ (~isHolding /\ edit'.op = "move") => roomData' = roomData
          /\ (~isHolding /\ edit'.op = "down") => AppliedTo(edit'.tile)]_vars

\* the first pointerdown after a pointerup, on the tile of the last event
\* before the pointerup, has raised the tile
C25_RaisedAgain ==
    /\ edit.op = "down"
    /\ edit.prev = NoTile
    /\ edit.released = <<0, 0>>
    /\ edit.tile = <<0, 0>>
    /\ lastUsedTile = <<0, 0>>
    /\ config.currentAction = "UP"
    /\ roomData.tiles[<<0, 0>>].walkable
    /\ roomData.tiles[<<0, 0>>].height = 1
    /\ \A t \in FloorTiles \ {<<0, 0>>} : ~roomData.tiles[t].walkable

====
